---- MODULE Spec2Model ----
(***************************************************************************)
(* Model of the EVETrade data sync service: the best-order aggregation of  *)
(* MarketData.execute_requests and citadel_data.find_best_orders, the      *)
(* paginated fetchers, the region fan-out of app.get_data, and the esipy   *)
(* client (retry loop, multi_request, cached request) with EsiApp's        *)
(* swagger revalidation.                                                   *)
(*                                                                         *)
(* Each subsystem has its own specification (SpecAgg, SpecFetch, ...) over *)
(* the shared variable tuple; the variables of the other subsystems stay   *)
(* at their idle values.                                                   *)
(***************************************************************************)
EXTENDS Integers, Sequences, FiniteSets, TLC

VARIABLES
    \* ---- aggregation (market_data.py 105-143, citadel_data.py 166-215)
    orders,          \* the raw order list handed to the aggregation
    market_valid,    \* what execute_requests returns (json strings)
    citadel_valid,   \* what get_citadel_orders returns (json strings)
    agg_ran,         \* which pipelines have run on `orders`
    market_again,    \* the market aggregation run on its own output
    citadel_again,   \* find_best_orders run on its own output
    \* ---- one fetch operation (market_data.py 57-103, citadel_data.py 92-131)
    f_kind,          \* "market" (execute_requests) or "citadel" (get_citadel_data)
    remote,          \* what the remote answers for each page
    x_pages,         \* the page count header of the remote's answers
    pc,              \* position of the fetch operation
    page_count,      \* MarketData.page_count
    total_pages,     \* get_citadel_data: total_pages
    page_idx,        \* get_citadel_data: page_idx
    fetched,         \* MarketData.orders / citadel_orders
    tasks,           \* state of the futures of pages 2..page_count
    backoff,         \* MarketData.backoff / backoff_timer
    rate_limit,      \* get_citadel_data: rate_limit
    sleeps,          \* the sleeps of the operation, in order
    requested,       \* the pages requested, in order
    result,          \* what the operation returned
    \* ---- app.get_data (app.py 62-100)
    d_pc,            \* position of get_data
    threads,         \* get_data: the started threads, in order
    joined,          \* how many threads of `threads` have been joined
    t_pc,            \* position of each region thread
    t_len,           \* len(orders) as read by a thread at line 84
    t_read,          \* order_count as read by a thread at line 84
    order_count,     \* get_data: order_count
    sink,            \* number of records bulk-loaded per source (0: citadels)
    region_orders,   \* number of records execute_requests yields per region
    c_orders,        \* number of records get_citadel_orders yields
    fault,           \* the step of each region's pipeline that raises
    c_fault,         \* the step of the citadel ingestion that raises
    \* ---- EsiClient.multi_request (client.py 117-136)
    mr_pc,           \* position of multi_request
    mr_threads,      \* the `threads` argument
    job_raises,      \* the jobs whose session.request raises
    job_state,       \* state of each job's future
    results,         \* multi_request: results
    finish_order,    \* what the shims returned, in the order the workers finished
    \* ---- EsiClient._retry_request (client.py 95-115)
    rr_pc,           \* position of _retry_request
    retries,         \* _retry_request: retries
    outcomes,        \* what each send attempt met, in order
    delays,          \* the time.sleep arguments, in hundredths of a second
    rr_result,       \* the response returned or the exception raised
    \* ---- EsiClient.request and its cache (client.py 35-93, 138-201),
    \*      EsiApp.__get_or_create_swagger (app.py 47-111)
    scenario,        \* "client" or "app": whose calls the behaviour holds
    now,             \* the clock, in seconds
    client,          \* "unbuilt", "ready", or "attribute_error"
    retry_requests,  \* the constructor argument
    cache,           \* EsiClient.cache: the stored entries by cache key
    call,            \* the current (or last) request of the client
    app_expire,      \* EsiApp.expire (cache_time)
    app_cache,       \* EsiApp.cache
    app,             \* the current (or last) __get_or_create_swagger call
    \* ---- app.main (app.py 179-207) and the Elasticsearch indices
    m_pc,            \* main: the statement it is at, "done" or "failed"
    indices,         \* the indices that exist
    alias_of,        \* the index ES_ALIAS points to, or "none"
    alias_start,     \* the index ES_ALIAS pointed to when main started
    previous_index,  \* main's local previous_index (None is "none")
    to_clean,        \* delete_stale_indices: the indices still to visit
    cleaned,         \* the indices delete_stale_indices has deleted
    switched,        \* update_alias has moved the alias in this run
    m_error          \* the call whose exception main caught, or "none"

aggVars == <<orders, market_valid, citadel_valid, agg_ran,
            market_again, citadel_again>>

fetchVars == <<f_kind, remote, x_pages, pc, page_count, total_pages, page_idx,
               fetched, tasks, backoff, rate_limit, sleeps, requested, result>>

dataVars == <<d_pc, threads, joined, t_pc, t_len, t_read, order_count, sink,
              region_orders, c_orders, fault, c_fault>>

multiVars == <<mr_pc, mr_threads, job_raises, job_state, results,
              finish_order>>

retryVars == <<rr_pc, retries, outcomes, delays, rr_result>>

clientVars == <<scenario, now, client, retry_requests, cache, call,
                app_expire, app_cache, app>>

mainVars == <<m_pc, indices, alias_of, alias_start, previous_index, to_clean,
              cleaned, switched, m_error>>

vars == <<aggVars, fetchVars, dataVars, multiVars, retryVars, clientVars,
          mainVars>>

\* what the actions of one subsystem leave alone
notAgg == <<fetchVars, dataVars, multiVars, retryVars, clientVars, mainVars>>
notFetch == <<aggVars, dataVars, multiVars, retryVars, clientVars, mainVars>>
notData == <<aggVars, fetchVars, multiVars, retryVars, clientVars, mainVars>>
notMulti == <<aggVars, fetchVars, dataVars, retryVars, clientVars, mainVars>>
notRetry == <<aggVars, fetchVars, dataVars, multiVars, clientVars, mainVars>>
notClient == <<aggVars, fetchVars, dataVars, multiVars, retryVars, mainVars>>
notMain == <<aggVars, fetchVars, multiVars, retryVars, clientVars>>

\* A dict key that is missing (dict.get(...) gives None).
Absent == -1

(***************************************************************************)
(* Idle values: a subsystem that a specification does not run.             *)
(***************************************************************************)
IdleAgg ==
    /\ orders = <<>>
    /\ market_valid = <<>>
    /\ citadel_valid = <<>>
    /\ agg_ran = {}
    /\ market_again = <<>>
    /\ citadel_again = <<>>

IdleFetch ==
    /\ f_kind = "none"
    /\ remote = <<>>
    /\ x_pages = Absent
    /\ pc = "idle"
    /\ page_count = -1
    /\ total_pages = 1
    /\ page_idx = 0
    /\ fetched = <<>>
    /\ tasks = <<>>
    /\ backoff = 1
    /\ rate_limit = 100
    /\ sleeps = <<>>
    /\ requested = <<>>
    /\ result = "none"

IdleData ==
    /\ d_pc = "idle"
    /\ threads = <<>>
    /\ joined = 0
    /\ t_pc = <<>>
    /\ t_len = <<>>
    /\ t_read = <<>>
    /\ order_count = 0
    /\ sink = <<>>
    /\ region_orders = <<>>
    /\ c_orders = 0
    /\ fault = <<>>
    /\ c_fault = "none"

IdleMulti ==
    /\ mr_pc = "idle"
    /\ mr_threads = 20
    /\ job_raises = <<>>
    /\ job_state = <<>>
    /\ results = <<>>
    /\ finish_order = <<>>

IdleRetry ==
    /\ rr_pc = "idle"
    /\ retries = 0
    /\ outcomes = <<>>
    /\ delays = <<>>
    /\ rr_result = "none"

\* Python's None where a response, a cache entry or a call is expected
NoResponse ==
    [status_code |-> 0, expires |-> Absent, etag |-> Absent, content |-> "None"]

NoCall ==
    [pc |-> "none", impl |-> "none", method |-> "none", cached |-> NoResponse,
     live |-> NoResponse, t_check |-> 0, if_none_match |-> Absent,
     sends |-> 0, hit |-> FALSE, response |-> NoResponse, value |-> NoResponse,
     raise_on_error |-> "absent", exception |-> "none", t_response |-> 0]

\* the tuple (None, None, 0) of app.py line 50
NoCachedSwagger ==
    [swagger |-> "None", expires |-> Absent, etag |-> Absent, timeout |-> 0]

NoSwagger ==
    [pc |-> "none", cached |-> NoCachedSwagger, if_none_match |-> Absent,
     timeout |-> 0, expiration |-> 0, head |-> NoResponse, get_status |-> 0,
     attempt |-> 0, value |-> "None"]

IdleClient ==
    /\ scenario = "none"
    /\ now = 1
    /\ client = "unbuilt"
    /\ retry_requests = FALSE
    /\ cache = <<>>
    /\ call = NoCall
    /\ app_expire = Absent
    /\ app_cache = <<>>
    /\ app = NoSwagger

IdleMain ==
    /\ m_pc = "idle"
    /\ indices = {}
    /\ alias_of = "none"
    /\ alias_start = "none"
    /\ previous_index = "none"
    /\ to_clean = {}
    /\ cleaned = {}
    /\ switched = FALSE
    /\ m_error = "none"

(***************************************************************************)
(* Bounds                                                                  *)
(***************************************************************************)
MaxOrders == 3      \* longest raw order list
MaxPages == 3       \* most pages of a paginated resource
NumRegions == 2     \* regions handed to get_data
NumJobs == 3        \* jobs of a multi_request batch
MaxTime == 3        \* last second of the clock

(***************************************************************************)
(* Program constants                                                       *)
(***************************************************************************)
NON_STATION_ID_THRESHOLD == 99999999
ERROR_LIMIT_THRESHOLD == 20
CITADEL_RATE_LIMIT_THRESHOLD == 10
MARKET_PAGE_SLEEP == 3
CITADEL_RATE_SLEEP == 60
MAX_THREADS == 100              \* multi_request clamp
MAX_RETRIES == 5                \* attempts of _retry_request
Region == 10000002              \* MarketData.region of the modelled instance

(***************************************************************************)
(* Orders.  A python dict with optional keys becomes a record whose        *)
(* missing keys hold Absent ("unset" for the citadel flag).                *)
(***************************************************************************)
RawOrder(id, loc, ty, pr, buy) ==
    [order_id |-> id, location_id |-> loc, station_id |-> Absent,
     type_id |-> ty, price |-> pr, is_buy_order |-> buy,
     citadel |-> "unset", region_id |-> Absent, system_id |-> Absent]

Locations == {NON_STATION_ID_THRESHOLD, NON_STATION_ID_THRESHOLD + 1}
Types == {34, 35}
Prices == {1, 2}

\* Raw order lists of length <= MaxOrders; order_id is the position.
OrderShapes == Locations \X Types \X Prices \X BOOLEAN

OrderList(n, f) ==
    [i \in 1..n |-> RawOrder(i, f[i][1], f[i][2], f[i][3], f[i][4])]

\* structureInfo.json: the structures with known system and region.
CitadelInfo ==
    (NON_STATION_ID_THRESHOLD + 1) :> [system_id |-> 30000142, region_id |-> Region]

\* json.dumps(record): a string, no longer a dict.
JsonDumps(record) == [json |-> record]

(***************************************************************************)
(* The nested best_orders dict: keys in first-insertion order, and the     *)
(* "buy_order" / "sell_order" slots of each key.                           *)
(***************************************************************************)
EmptyBest == [keys |-> <<>>, buy |-> <<>>, sell |-> <<>>]

InSeq(x, s) == \E i \in DOMAIN s : s[i] = x

\* best_orders[station_id][type_id] coming into existence
Touch(best, k) ==
    IF InSeq(k, best.keys) THEN best
    ELSE [best EXCEPT !.keys = Append(@, k)]

HasBuy(best, k) == k \in DOMAIN best.buy
HasSell(best, k) == k \in DOMAIN best.sell

\* a buy comparison that lets an equal price replace the winner
BuyBeatsOrTies(order, current) == order.price >= current.price

\* a buy update with the price comparison left out
BuyBeatsAlways(order, current) == TRUE

\* a buy comparison with the operands swapped
BuyBeatsSwapped(order, current) == order.price < current.price

BuyBeats(order, current) == order.price > current.price
SellBeats(order, current) == order.price < current.price

\* a buy order that lands in the sell slot too (the else branch run as well)
PutBuyAndSell(best, k, order) ==
    [best EXCEPT !.buy = (k :> order) @@ @, !.sell = (k :> order) @@ @]

PutBuy(best, k, order) == [best EXCEPT !.buy = (k :> order) @@ @]
PutSell(best, k, order) == [best EXCEPT !.sell = (k :> order) @@ @]

RECURSIVE FirstSeen(_, _)
FirstSeen(s, acc) ==
    IF s = <<>> THEN acc
    ELSE FirstSeen(Tail(s), IF InSeq(Head(s), acc) THEN acc
                            ELSE Append(acc, Head(s)))

RECURSIVE Concat(_)
Concat(ss) == IF ss = <<>> THEN <<>> ELSE Head(ss) \o Concat(Tail(ss))

\* Iteration order of the two nested dict loops: stations in insertion
\* order, and within each station its types in insertion order.
NestedKeys(best) ==
    LET stations == FirstSeen([i \in DOMAIN best.keys |-> best.keys[i][1]], <<>>)
    IN Concat([i \in DOMAIN stations |->
                 SelectSeq(best.keys, LAMBDA k : k[1] = stations[i])])

(***************************************************************************)
(* MarketData.execute_requests, lines 105-143                              *)
(***************************************************************************)
\* a filter that takes the threshold itself for a virtual location
IsVirtualFromThreshold(order) ==
    (IF order.location_id = Absent THEN 0 ELSE order.location_id)
        >= NON_STATION_ID_THRESHOLD

\* line 110: order.get("location_id", 0) > NON_STATION_ID_THRESHOLD
IsVirtualLocation(order) ==
    (IF order.location_id = Absent THEN 0 ELSE order.location_id)
        > NON_STATION_ID_THRESHOLD

MarketStep(best, order) ==
    IF IsVirtualLocation(order) THEN best
    ELSE IF order.location_id = Absent \/ order.type_id = Absent THEN best
    ELSE LET o == [order EXCEPT !.citadel = "False"]
             k == <<o.location_id, o.type_id>>
             b == Touch(best, k)
         IN IF o.is_buy_order
            THEN IF ~HasBuy(b, k) \/ BuyBeats(o, b.buy[k])
                 THEN PutBuy(b, k, o) ELSE b
            ELSE IF ~HasSell(b, k) \/ SellBeats(o, b.sell[k])
                 THEN PutSell(b, k, o) ELSE b

RECURSIVE MarketFold(_, _)
\* for order in self.orders (line 109)
MarketFold(best, s) ==
    IF s = <<>> THEN best
    ELSE MarketFold(MarketStep(best, Head(s)), Tail(s))

\* lines 131-135 / 137-141
MarketRelabel(order) ==
    [order EXCEPT !.station_id = order.location_id,
                  !.region_id = Region,
                  !.location_id = Absent]

MarketEmit(best) ==
    LET ks == NestedKeys(best)
    IN Concat([i \in DOMAIN ks |->
          (IF HasBuy(best, ks[i]) THEN <<MarketRelabel(best.buy[ks[i]])>> ELSE <<>>)
          \o (IF HasSell(best, ks[i]) THEN <<MarketRelabel(best.sell[ks[i]])>> ELSE <<>>)])

MarketAggregate(os) ==
    LET valid == MarketEmit(MarketFold(EmptyBest, os))
    IN [i \in DOMAIN valid |-> JsonDumps(valid[i])]

(***************************************************************************)
(* citadel_data.enrich_orders, find_best_orders, get_citadel_orders        *)
(***************************************************************************)
EnrichOrder(order) ==
    LET o == [order EXCEPT !.citadel = "True",
                           !.station_id = order.location_id,
                           !.location_id = Absent]
    IN IF o.station_id \in DOMAIN CitadelInfo
       THEN [o EXCEPT !.system_id = CitadelInfo[o.station_id].system_id,
                      !.region_id = CitadelInfo[o.station_id].region_id]
       ELSE o

enrich_orders(os) == [i \in DOMAIN os |-> EnrichOrder(os[i])]

CitadelStep(best, order) ==
    LET k == <<order.station_id, order.type_id>>
        b == Touch(best, k)
    IN IF order.is_buy_order
       THEN IF ~HasBuy(b, k) \/ BuyBeats(order, b.buy[k])
            THEN PutBuy(b, k, order) ELSE b
       ELSE IF ~HasSell(b, k) \/ SellBeats(order, b.sell[k])
            THEN PutSell(b, k, order) ELSE b

RECURSIVE CitadelFold(_, _)
\* for order in citadel_orders (line 190)
CitadelFold(best, s) ==
    IF s = <<>> THEN best
    ELSE CitadelFold(CitadelStep(best, Head(s)), Tail(s))

CitadelEmit(best) ==
    LET ks == NestedKeys(best)
    IN Concat([i \in DOMAIN ks |->
          (IF HasBuy(best, ks[i]) THEN <<best.buy[ks[i]]>> ELSE <<>>)
          \o (IF HasSell(best, ks[i]) THEN <<best.sell[ks[i]]>> ELSE <<>>)])

find_best_orders(os) == CitadelEmit(CitadelFold(EmptyBest, os))

\* get_citadel_orders, lines 231-238, on the orders get_all_orders returned
CitadelPipeline(os) ==
    LET best == find_best_orders(enrich_orders(os))
    IN [i \in DOMAIN best |-> JsonDumps(best[i])]

(***************************************************************************)
(* SpecAgg: both aggregations applied to every bounded order list          *)
(***************************************************************************)
InitAgg ==
    /\ \E n \in 0..MaxOrders :
          \E f \in [1..n -> OrderShapes] : orders = OrderList(n, f)
    /\ market_valid = <<>>
    /\ citadel_valid = <<>>
    /\ agg_ran = {}
    /\ market_again = <<>>
    /\ citadel_again = <<>>
    /\ IdleFetch
    /\ IdleData
    /\ IdleMulti
    /\ IdleRetry
    /\ IdleClient
    /\ IdleMain

AggregateMarket ==
    /\ "market" \notin agg_ran
    /\ market_valid' = MarketAggregate(orders)
    /\ agg_ran' = agg_ran \cup {"market"}
    /\ UNCHANGED <<orders, citadel_valid, market_again, citadel_again, notAgg>>

AggregateCitadel ==
    /\ "citadel" \notin agg_ran
    /\ citadel_valid' = CitadelPipeline(orders)
    /\ agg_ran' = agg_ran \cup {"citadel"}
    /\ UNCHANGED <<orders, market_valid, market_again, citadel_again, notAgg>>

\* the records read back from the strings of line 143
JsonLoads(out) == [i \in DOMAIN out |-> out[i].json]

\* a second pass of lines 105-143 over the records the first pass emitted
ReaggregateMarket ==
    /\ "market" \in agg_ran /\ "market_again" \notin agg_ran
    /\ market_again' = MarketAggregate(JsonLoads(market_valid))
    /\ agg_ran' = agg_ran \cup {"market_again"}
    /\ UNCHANGED <<orders, market_valid, citadel_valid, citadel_again, notAgg>>

\* a second pass of find_best_orders over the records the first pass returned
ReaggregateCitadel ==
    /\ "citadel" \in agg_ran /\ "citadel_again" \notin agg_ran
    /\ citadel_again' = find_best_orders(JsonLoads(citadel_valid))
    /\ agg_ran' = agg_ran \cup {"citadel_again"}
    /\ UNCHANGED <<orders, market_valid, citadel_valid, market_again, notAgg>>

NextAgg ==
    \/ AggregateMarket
    \/ AggregateCitadel
    \/ ReaggregateMarket
    \/ ReaggregateCitadel

SpecAgg == InitAgg /\ [][NextAgg]_vars

(***************************************************************************)
(* C1 -- best-order aggregation.  For every raw order whose key is         *)
(* eligible, the aggregation emits a record of that key and side, and      *)
(* every emitted buy record of the key has a price >= the order's price,   *)
(* every emitted sell record a price <= the order's price.  Market         *)
(* pipeline: eligible = location_id at most NON_STATION_ID_THRESHOLD.      *)
(* Citadel pipeline: every order is eligible.                              *)
(***************************************************************************)
SameKeySide(rec, o) ==
    /\ rec.station_id = o.location_id
    /\ rec.type_id = o.type_id
    /\ rec.is_buy_order = o.is_buy_order

Dominates(rec, o) ==
    IF o.is_buy_order THEN rec.price >= o.price ELSE rec.price <= o.price

BestIn(out, o) ==
    LET same == { j \in DOMAIN out : SameKeySide(out[j].json, o) }
    IN same # {} /\ \A j \in same : Dominates(out[j].json, o)

C1_BestOrderWins ==
    /\ "market" \in agg_ran =>
          \A i \in DOMAIN orders :
              orders[i].location_id <= NON_STATION_ID_THRESHOLD
                  => BestIn(market_valid, orders[i])
    /\ "citadel" \in agg_ran =>
          \A i \in DOMAIN orders : BestIn(citadel_valid, orders[i])

\* both pipelines ran on a list that holds a sell order and where a later
\* buy outbids an earlier buy of the same station key
C1_Witness ==
    /\ {"market", "citadel"} \subseteq agg_ran
    /\ \E i, j \in DOMAIN orders :
          /\ i < j
          /\ orders[i].location_id = NON_STATION_ID_THRESHOLD
          /\ orders[j].location_id = orders[i].location_id
          /\ orders[j].type_id = orders[i].type_id
          /\ orders[i].is_buy_order /\ orders[j].is_buy_order
          /\ orders[j].price > orders[i].price
    /\ \E i \in DOMAIN orders : ~orders[i].is_buy_order
    /\ market_valid # <<>> /\ citadel_valid # <<>>

(***************************************************************************)
(* C12 -- idempotence of aggregation.  Feeding the records one pass        *)
(* emitted back into the same aggregation yields exactly the same records, *)
(* for the market pipeline and for find_best_orders.                       *)
(***************************************************************************)
C12_Idempotent ==
    /\ "market_again" \in agg_ran => market_again = market_valid
    /\ "citadel_again" \in agg_ran => citadel_again = JsonLoads(citadel_valid)

(***************************************************************************)
(* SpecShuffle: the aggregations on the order lists of one item type, for  *)
(* the comparison of every arrival order of each list                      *)
(***************************************************************************)
ShuffleShapes == Locations \X {34} \X Prices \X BOOLEAN

InitShuffle ==
    /\ \E n \in 0..MaxOrders :
          \E f \in [1..n -> ShuffleShapes] : orders = OrderList(n, f)
    /\ market_valid = <<>>
    /\ citadel_valid = <<>>
    /\ agg_ran = {}
    /\ market_again = <<>>
    /\ citadel_again = <<>>
    /\ IdleFetch
    /\ IdleData
    /\ IdleMulti
    /\ IdleRetry
    /\ IdleClient
    /\ IdleMain

SpecShuffle == InitShuffle /\ [][NextAgg]_vars

(***************************************************************************)
(* C13 -- order-insensitivity, as claimed: for every permutation of the    *)
(* input the aggregation emits the same set of records.                    *)
(***************************************************************************)
Permuted(os, p) == [i \in DOMAIN os |-> os[p[i]]]

RecordsOf(out) == { out[i] : i \in DOMAIN out }

C13_SameRecordsInAnyOrder ==
    /\ "market" \in agg_ran =>
          \A p \in Permutations(DOMAIN orders) :
              RecordsOf(MarketAggregate(Permuted(orders, p)))
                  = RecordsOf(market_valid)
    /\ "citadel" \in agg_ran =>
          \A p \in Permutations(DOMAIN orders) :
              RecordsOf(CitadelPipeline(Permuted(orders, p)))
                  = RecordsOf(citadel_valid)

(***************************************************************************)
(* C13, amended -- for every permutation of the input the aggregation      *)
(* emits records of the same keys, sides and prices: the set of            *)
(* (location, type, side, price) of the emitted records does not depend on *)
(* the arrival order.  Which of several orders tying at the winning price  *)
(* is emitted does.                                                        *)
(***************************************************************************)
Offer(rec) == <<rec.station_id, rec.type_id, rec.is_buy_order, rec.price>>

OffersOf(out) == { Offer(out[i].json) : i \in DOMAIN out }

C13_SameOffersInAnyOrder ==
    /\ "market" \in agg_ran =>
          \A p \in Permutations(DOMAIN orders) :
              OffersOf(MarketAggregate(Permuted(orders, p)))
                  = OffersOf(market_valid)
    /\ "citadel" \in agg_ran =>
          \A p \in Permutations(DOMAIN orders) :
              OffersOf(CitadelPipeline(Permuted(orders, p)))
                  = OffersOf(citadel_valid)

\* both pipelines ran on a list with a losing order and a tie at the
\* winning price, so that another arrival order emits another record
C13_Witness ==
    /\ {"market", "citadel"} \subseteq agg_ran
    /\ market_valid # <<>>
    /\ \E p \in Permutations(DOMAIN orders) :
          /\ RecordsOf(MarketAggregate(Permuted(orders, p))) # RecordsOf(market_valid)
          /\ RecordsOf(CitadelPipeline(Permuted(orders, p))) # RecordsOf(citadel_valid)
    /\ \E i, j \in DOMAIN orders :
          /\ orders[i].location_id = orders[j].location_id
          /\ orders[i].type_id = orders[j].type_id
          /\ orders[i].is_buy_order = orders[j].is_buy_order
          /\ orders[i].price < orders[j].price

(***************************************************************************)
(* C14 -- tie-breaking.  Of the orders of one key and side that share the  *)
(* emitted price, the emitted record is the one that comes first in the    *)
(* input sequence (order_id is the position in the input).                 *)
(***************************************************************************)
FirstOfItsPrice(rec, os) ==
    \A i \in DOMAIN os :
        (SameKeySide(rec, os[i]) /\ os[i].price = rec.price)
            => rec.order_id <= i

C14_FirstSeenWinsTies ==
    /\ "market" \in agg_ran =>
          \A j \in DOMAIN market_valid :
              FirstOfItsPrice(market_valid[j].json, orders)
    /\ "citadel" \in agg_ran =>
          \A j \in DOMAIN citadel_valid :
              FirstOfItsPrice(citadel_valid[j].json, orders)

\* two orders of a station key tie at the winning price, a third order of
\* the key and side has another price, and both pipelines emitted the
\* first of the pair
C14_Witness ==
    /\ {"market", "citadel"} \subseteq agg_ran
    /\ \E i, j \in DOMAIN orders :
          /\ i < j
          /\ orders[i].location_id = NON_STATION_ID_THRESHOLD
          /\ orders[j] = [orders[i] EXCEPT !.order_id = j]
          /\ \E m \in DOMAIN market_valid : market_valid[m].json.order_id = i
          /\ \E c \in DOMAIN citadel_valid : citadel_valid[c].json.order_id = i
          /\ \E k \in DOMAIN orders :
                /\ orders[k].location_id = orders[i].location_id
                /\ orders[k].type_id = orders[i].type_id
                /\ orders[k].is_buy_order = orders[i].is_buy_order
                /\ orders[k].price # orders[i].price

(***************************************************************************)
(* C15 -- output shape.  The output holds at most one buy and one sell     *)
(* record per (location, type) key; every output record is one of the      *)
(* input orders (its position, location, type, side and price) and appears *)
(* once, so no input order is emitted on both sides; the output is no      *)
(* longer than the input.                                                  *)
(***************************************************************************)
FromInput(rec, os) ==
    /\ rec.order_id \in DOMAIN os
    /\ rec.station_id = os[rec.order_id].location_id
    /\ rec.type_id = os[rec.order_id].type_id
    /\ rec.is_buy_order = os[rec.order_id].is_buy_order
    /\ rec.price = os[rec.order_id].price

OutputShape(out, os) ==
    /\ \A j \in DOMAIN out : FromInput(out[j].json, os)
    /\ \A j, k \in DOMAIN out :
          j # k => /\ out[j].json.order_id # out[k].json.order_id
                   /\ ~ /\ out[j].json.station_id = out[k].json.station_id
                        /\ out[j].json.type_id = out[k].json.type_id
                        /\ out[j].json.is_buy_order = out[k].json.is_buy_order
    /\ Len(out) <= Len(os)

C15_OutputShape ==
    /\ "market" \in agg_ran => OutputShape(market_valid, orders)
    /\ "citadel" \in agg_ran => OutputShape(citadel_valid, orders)

\* both pipelines ran on a list with two buy orders and a sell order of
\* one station key and emitted one record for each side
C15_Witness ==
    /\ {"market", "citadel"} \subseteq agg_ran
    /\ Len(market_valid) = 2 /\ Len(citadel_valid) = 2
    /\ Len(orders) = 3
    /\ \A i \in DOMAIN orders :
          /\ orders[i].location_id = NON_STATION_ID_THRESHOLD
          /\ orders[i].type_id = orders[1].type_id
    /\ \E i, j, k \in DOMAIN orders :
          /\ i # j
          /\ orders[i].is_buy_order /\ orders[j].is_buy_order
          /\ ~orders[k].is_buy_order

(***************************************************************************)
(* C21 -- enrichment miss.  Every record the citadel pipeline emits is of  *)
(* a location with an entry in the lookup and carries that entry's         *)
(* system_id and region_id: orders of a location without an entry were     *)
(* dropped.                                                                *)
(***************************************************************************)
C21_MissesAreDropped ==
    "citadel" \in agg_ran =>
        \A j \in DOMAIN citadel_valid :
            LET rec == citadel_valid[j].json
            IN /\ rec.station_id \in DOMAIN CitadelInfo
               /\ rec.system_id = CitadelInfo[rec.station_id].system_id
               /\ rec.region_id = CitadelInfo[rec.station_id].region_id

(***************************************************************************)
(* SpecFilter: the market pipeline on order lists in which a location_id   *)
(* or a type_id may be missing                                             *)
(***************************************************************************)
FilterKeys ==
    {<<Absent, 34>>, <<NON_STATION_ID_THRESHOLD, 34>>,
     <<NON_STATION_ID_THRESHOLD + 1, 34>>, <<NON_STATION_ID_THRESHOLD, Absent>>,
     <<Absent, Absent>>}

FilterShapes == FilterKeys \X Prices \X BOOLEAN

InitFilter ==
    /\ \E n \in 0..MaxOrders :
          \E f \in [1..n -> FilterShapes] :
              orders = [i \in 1..n |->
                          RawOrder(i, f[i][1][1], f[i][1][2], f[i][2], f[i][3])]
    /\ market_valid = <<>>
    /\ citadel_valid = <<>>
    /\ agg_ran = {}
    /\ market_again = <<>>
    /\ citadel_again = <<>>
    /\ IdleFetch
    /\ IdleData
    /\ IdleMulti
    /\ IdleRetry
    /\ IdleClient
    /\ IdleMain

NextFilter ==
    \/ AggregateMarket
    \/ ReaggregateMarket

SpecFilter == InitFilter /\ [][NextFilter]_vars

(***************************************************************************)
(* C27 -- virtual-location filter.  After the market aggregation: every    *)
(* order with a location_id at most NON_STATION_ID_THRESHOLD and a type_id *)
(* took part (its key and side have a record at least as good as it);      *)
(* no order with a location_id above the threshold, or without location_id *)
(* or type_id, is emitted; no emitted station_id is above the threshold;   *)
(* and the output is what the aggregation gives without those orders.      *)
(***************************************************************************)
Eligible(o) ==
    /\ o.location_id # Absent
    /\ o.type_id # Absent
    /\ o.location_id <= NON_STATION_ID_THRESHOLD

C27_VirtualLocationFilter ==
    "market" \in agg_ran =>
        /\ \A i \in DOMAIN orders :
              IF Eligible(orders[i])
              THEN BestIn(market_valid, orders[i])
              ELSE \A j \in DOMAIN market_valid :
                       market_valid[j].json.order_id # orders[i].order_id
        /\ \A j \in DOMAIN market_valid :
              market_valid[j].json.station_id <= NON_STATION_ID_THRESHOLD
        /\ market_valid = MarketAggregate(SelectSeq(orders, Eligible))

\* aggregated: an order at exactly the threshold was emitted although an
\* order of a virtual location and one without location_id bid more for
\* the same type, and an order without type_id was in the list
C27_Witness ==
    /\ "market" \in agg_ran
    /\ \E i, j, k \in DOMAIN orders :
          /\ orders[i].location_id = NON_STATION_ID_THRESHOLD
          /\ orders[i].type_id = 34 /\ orders[i].is_buy_order
          /\ orders[i].price = 1
          /\ \E r \in DOMAIN market_valid :
                market_valid[r].json.order_id = orders[i].order_id
          /\ orders[j].location_id > NON_STATION_ID_THRESHOLD
          /\ orders[j].is_buy_order /\ orders[j].price = 2
          /\ \/ orders[k].location_id = Absent
             \/ orders[k].type_id = Absent

(***************************************************************************)
(* One fetch operation.  The remote is fixed at the start: for each page   *)
(* either a 200 answer with a list of records and a remaining error        *)
(* budget, an error object (a dict, status other than 200), or a transport *)
(* failure (exception or timeout).                                         *)
(***************************************************************************)
Remains == {5, 15, 100}

PageAnswers ==
    { [kind |-> "ok", remain |-> r] : r \in Remains }
      \cup { [kind |-> "error_object", remain |-> 100],
             [kind |-> "exception", remain |-> 100] }

\* the records of page p: one buy order of a station, its type the page
PageOrders(p) == <<RawOrder(p, NON_STATION_ID_THRESHOLD, p, 1, TRUE)>>

InitFetch ==
    /\ IdleAgg
    /\ IdleData
    /\ IdleMulti
    /\ IdleRetry
    /\ IdleClient
    /\ IdleMain
    /\ f_kind \in {"market", "citadel"}
    /\ remote \in [1..MaxPages -> PageAnswers]
    /\ x_pages \in {Absent} \cup (0..MaxPages)
    /\ pc = "start"
    /\ page_count = -1
    /\ total_pages = 1
    /\ page_idx = 0
    /\ fetched = <<>>
    /\ tasks = <<>>
    /\ backoff = 1
    /\ rate_limit = 100
    /\ sleeps = <<>>
    /\ requested = <<>>
    /\ result = "none"

\* the page the request of a fetch loop index goes to is the page before
EndpointOfPreviousPage(idx) == idx - 1

\* construct_next_esi_endpoint (40-48): the url, told by its page number
construct_next_esi_endpoint(idx) == idx

\* market_data.py 67 / 79
MarketLimitLow(remain) == remain < ERROR_LIMIT_THRESHOLD

\* get_initial_market_data (57-70), then the task creation of 93-96.
\* An error object is a dict: orders.extend takes its keys, and the answer
\* carries no x-pages header, so line 65 raises KeyError.
MarketPage1 ==
    /\ f_kind = "market" /\ pc = "start"
    /\ requested' = Append(requested, construct_next_esi_endpoint(1))
    /\ IF remote[1].kind = "ok" /\ x_pages # Absent
       THEN /\ fetched' = fetched \o PageOrders(1)
            /\ page_count' = x_pages
            /\ IF MarketLimitLow(remote[1].remain)
               THEN /\ sleeps' = Append(sleeps, backoff)
                    /\ backoff' = backoff * 2
               ELSE UNCHANGED <<sleeps, backoff>>
            /\ tasks' = [p \in 2..x_pages |-> "pending"]
            /\ pc' = "gather"
            /\ UNCHANGED result
       ELSE /\ fetched' = IF remote[1].kind = "exception" THEN fetched
                          ELSE fetched \o PageOrders(1)
            /\ pc' = "raised"
            /\ result' = "exception"
            /\ UNCHANGED <<page_count, sleeps, backoff, tasks>>
    /\ UNCHANGED <<notFetch, f_kind, remote, x_pages, total_pages, page_idx,
                   rate_limit>>

\* get_market_data (73-82) for page p, run as a task
MarketTask(p) ==
    /\ f_kind = "market" /\ pc = "gather"
    /\ p \in DOMAIN tasks /\ tasks[p] = "pending"
    /\ requested' = Append(requested, construct_next_esi_endpoint(p))
    /\ IF remote[p].kind = "exception"
       THEN /\ tasks' = [tasks EXCEPT ![p] = "exception"]
            /\ UNCHANGED sleeps
       ELSE /\ tasks' = [tasks EXCEPT ![p] = IF remote[p].kind = "ok"
                                            THEN "list" ELSE "dict"]
            /\ sleeps' = IF MarketLimitLow(remote[p].remain)
                         THEN Append(sleeps, MARKET_PAGE_SLEEP) ELSE sleeps
    /\ UNCHANGED <<notFetch, f_kind, remote, x_pages, pc, page_count,
                   total_pages, page_idx, fetched, backoff, rate_limit, result>>

\* asyncio.gather(*tasks) without return_exceptions (line 98): the first
\* exception of a task is raised in execute_requests at once.
GatherRaises ==
    /\ f_kind = "market" /\ pc = "gather"
    /\ \E p \in DOMAIN tasks : tasks[p] = "exception"
    /\ pc' = "raised"
    /\ result' = "exception"
    /\ UNCHANGED <<notFetch, f_kind, remote, x_pages, page_count, total_pages,
                   page_idx, fetched, tasks, backoff, rate_limit, sleeps,
                   requested>>

RECURSIVE MergePages(_, _, _)
\* lines 99-103, pages in the order of the tasks
MergePages(ts, p, last) ==
    IF p > last THEN <<>>
    ELSE (IF ts[p] = "list" THEN PageOrders(p) ELSE <<>>)
         \o MergePages(ts, p + 1, last)

\* all tasks done: lines 99-143
GatherReturns ==
    /\ f_kind = "market" /\ pc = "gather"
    /\ \A p \in DOMAIN tasks : tasks[p] \in {"list", "dict"}
    /\ fetched' = fetched \o MergePages(tasks, 2, page_count)
    /\ result' = MarketAggregate(fetched')
    /\ pc' = "done"
    /\ UNCHANGED <<notFetch, f_kind, remote, x_pages, page_count, total_pages,
                   page_idx, tasks, backoff, rate_limit, sleeps, requested>>

\* citadel_data.py 117
CitadelLimitLow(remain) == remain < CITADEL_RATE_LIMIT_THRESHOLD

\* what a failed page does to the loop of get_citadel_data (124 / 129)
CitadelLoopExit(failed, idx, total) == failed \/ ~(idx < total)

\* one iteration of the loop of get_citadel_data (104-129), with the
\* return of line 131 when the loop ends
CitadelPage ==
    /\ f_kind = "citadel" /\ pc = "start"
    /\ page_idx < total_pages
    /\ page_idx' = page_idx + 1
    /\ requested' = Append(requested, page_idx')
    /\ LET a == remote[page_idx']
           ok == a.kind = "ok" /\ x_pages # Absent
       IN /\ IF ok
             THEN /\ total_pages' = x_pages
                  /\ fetched' = fetched \o PageOrders(page_idx')
                  /\ rate_limit' = a.remain
                  /\ sleeps' = IF CitadelLimitLow(a.remain)
                               THEN Append(sleeps, CITADEL_RATE_SLEEP)
                               ELSE sleeps
                  /\ UNCHANGED backoff
             ELSE /\ sleeps' = Append(sleeps, backoff)
                  /\ backoff' = backoff * 2
                  /\ UNCHANGED <<total_pages, fetched, rate_limit>>
          /\ IF CitadelLoopExit(~ok, page_idx', total_pages')
             THEN /\ pc' = "done"
                  /\ result' = [orders |-> fetched', rate_limit |-> rate_limit']
             ELSE UNCHANGED <<pc, result>>
    /\ UNCHANGED <<notFetch, f_kind, remote, x_pages, page_count, tasks>>

NextFetch ==
    \/ MarketPage1
    \/ \E p \in 2..MaxPages : MarketTask(p)
    \/ GatherRaises
    \/ GatherReturns
    \/ CitadelPage

SpecFetch == InitFetch /\ [][NextFetch]_vars

(***************************************************************************)
(* C2 -- page-level partial failure.  When page 1 succeeds and reports N   *)
(* pages, and the request of exactly one page k in 2..N fails with an      *)
(* exception while the remote serves every other page, the fetch operation *)
(* ends by returning (not by raising) and its records are those of every   *)
(* page of 1..N but k.                                                     *)
(***************************************************************************)
SinglePageFails(k) ==
    /\ x_pages # Absent
    /\ k \in 2..x_pages
    /\ remote[k].kind = "exception"
    /\ \A p \in (1..x_pages) \ {k} : remote[p].kind = "ok"

FetchOver == pc \in {"done", "raised"}

\* the records the finished operation handed back
ReturnedRecords ==
    IF f_kind = "market" THEN [i \in DOMAIN result |-> result[i].json]
    ELSE result.orders

ReturnsPage(p) ==
    \E i \in DOMAIN ReturnedRecords : ReturnedRecords[i].order_id = p

PartialFailureContained(kind) ==
    \A k \in 2..MaxPages :
        (f_kind = kind /\ FetchOver /\ SinglePageFails(k))
            => /\ pc = "done"
               /\ \A p \in 1..x_pages : ReturnsPage(p) <=> p # k

C2_PageFailureIsContained ==
    PartialFailureContained("market") /\ PartialFailureContained("citadel")

(***************************************************************************)
(* C16 -- throttle with doubling backoff.  In a fetch operation none of    *)
(* whose requests failed, the fetcher has slept once for every response    *)
(* whose remaining budget was below the threshold, and the n-th of these   *)
(* sleeps lasted 2^(n-1) times the initial backoff of one second.          *)
(***************************************************************************)
BudgetLow(p) ==
    /\ remote[p].kind = "ok"
    /\ IF f_kind = "market" THEN remote[p].remain < ERROR_LIMIT_THRESHOLD
       ELSE remote[p].remain < CITADEL_RATE_LIMIT_THRESHOLD

NoRequestFailed ==
    /\ x_pages # Absent
    /\ \A i \in DOMAIN requested : remote[requested[i]].kind = "ok"

C16_ThrottleDoubles ==
    NoRequestFailed =>
        /\ Len(sleeps) = Cardinality({ i \in DOMAIN requested : BudgetLow(requested[i]) })
        /\ \A n \in DOMAIN sleeps : sleeps[n] = 2 ^ (n - 1)

(***************************************************************************)
(* C17 -- failed-page count.  A fetch operation in which page 1 succeeds   *)
(* and exactly one later page fails ends by returning the records of the   *)
(* other pages together with a failed-page count of 1.                     *)
(***************************************************************************)
\* the number that comes back beside the records: execute_requests returns
\* the list alone, get_citadel_data returns (citadel_orders, rate_limit)
ReturnedCount ==
    IF pc = "done" /\ f_kind = "citadel" THEN result.rate_limit ELSE Absent

C17_FailedPageCount ==
    \A k \in 2..MaxPages :
        (FetchOver /\ SinglePageFails(k))
            => /\ pc = "done"
               /\ \A p \in 1..x_pages : ReturnsPage(p) <=> p # k
               /\ ReturnedCount = 1

(***************************************************************************)
(* C24 -- pagination protocol of execute_requests.  The first request is   *)
(* for page 1 and page 1 is requested once; a page >= 2 is requested only  *)
(* after the page-1 response has set page_count and its throttle sleep, if *)
(* the budget was low, is over; no page is requested twice and none beyond *)
(* page_count; and when the operation returns each page of 2..page_count   *)
(* has been requested exactly once (none at all when page_count is 1).     *)
(***************************************************************************)
RequestsOf(p) == Cardinality({i \in DOMAIN requested : requested[i] = p})

C24_PaginationProtocol ==
    f_kind = "market" =>
        /\ requested # <<>> => requested[1] = 1
        /\ \A i \in DOMAIN requested : requested[i] \in 1..MaxPages
        /\ RequestsOf(1) <= 1
        /\ (\E i \in DOMAIN requested : requested[i] >= 2) =>
              /\ pc # "start"
              /\ page_count = x_pages
              /\ MarketLimitLow(remote[1].remain) =>
                    (sleeps # <<>> /\ sleeps[1] = 1)
        /\ \A p \in 2..MaxPages :
              RequestsOf(p) <= (IF p <= page_count THEN 1 ELSE 0)
        /\ pc = "done" =>
              \A p \in 2..MaxPages :
                  RequestsOf(p) = (IF p <= page_count THEN 1 ELSE 0)

\* a fetch of a resource of MaxPages pages has returned after a throttle
\* sleep on page 1, every page requested
C24_Witness ==
    /\ f_kind = "market" /\ pc = "done"
    /\ page_count = MaxPages /\ MaxPages > 1
    /\ MarketLimitLow(remote[1].remain)
    /\ Len(requested) = MaxPages

(***************************************************************************)
(* C25 -- pagination edge cases.  When page 1 is served and its page count *)
(* header says 0, or is missing or not an integer, the fetch operation     *)
(* requests page 1 only and returns, with the records of page 1.           *)
(***************************************************************************)
NoPageCount == remote[1].kind = "ok" /\ x_pages \in {Absent, 0}

C25_NoPageCountIsOnePage ==
    (FetchOver /\ NoPageCount) =>
        /\ pc = "done"
        /\ requested = <<1>>
        /\ ReturnsPage(1)

(***************************************************************************)
(* C26 -- non-record payloads.  A page whose body is an error object       *)
(* contributes nothing and does not make the fetch operation fail: when    *)
(* error objects are the only thing wrong with the pages of the resource,  *)
(* the operation returns and none of those pages has a record in what it   *)
(* returns, and what a market fetch hands to the aggregation is records    *)
(* only.                                                                   *)
(***************************************************************************)
NonRecord(p) == remote[p].kind = "error_object"

\* page 1 is served or an error object, its header names the pages, and no
\* page of the resource fails in transport
OnlyNonRecords ==
    /\ x_pages \in 1..MaxPages
    /\ \A p \in 1..x_pages : remote[p].kind # "exception"

C26_NonRecordsDiscarded ==
    (FetchOver /\ OnlyNonRecords) =>
        /\ pc = "done"
        /\ \A p \in 1..x_pages : NonRecord(p) => ~ReturnsPage(p)

(***************************************************************************)
(* app.get_data: the citadel ingestion, then one thread per region, then   *)
(* the joins.  Which step of a pipeline raises is fixed at the start.      *)
(***************************************************************************)
RegionIds == 1..NumRegions
Citadels == 0                     \* the sink source of the citadel records

RegionFaults == {"none", "fetch", "aggregate", "load"}
CitadelFaults == {"none", "credential", "fetch", "load"}
OrderCounts == {0, 2}

InitData ==
    /\ IdleAgg
    /\ IdleFetch
    /\ IdleMulti
    /\ IdleRetry
    /\ IdleClient
    /\ IdleMain
    /\ d_pc = "citadel"
    /\ threads = <<>>
    /\ joined = 0
    /\ t_pc = [r \in RegionIds |-> "unstarted"]
    /\ t_len = [r \in RegionIds |-> 0]
    /\ t_read = [r \in RegionIds |-> 0]
    /\ order_count = 0
    /\ sink = [src \in {Citadels} \cup RegionIds |-> 0]
    /\ region_orders \in [RegionIds -> OrderCounts]
    /\ c_orders \in OrderCounts
    /\ fault \in [RegionIds -> RegionFaults]
    /\ c_fault \in CitadelFaults

\* load_orders_to_es (113-121): bulk only when there are orders
LoadOrders(snk, src, n) == IF n > 0 THEN [snk EXCEPT ![src] = @ + n] ELSE snk

\* lines 70-75: the whole try block runs before any thread exists
IngestCitadels ==
    /\ d_pc = "citadel"
    /\ IF c_fault = "none"
       THEN /\ sink' = LoadOrders(sink, Citadels, c_orders)
            /\ order_count' = order_count + c_orders
       ELSE UNCHANGED <<sink, order_count>>     \* except Exception: log
    /\ d_pc' = "start"
    /\ UNCHANGED <<notData, threads, joined, t_pc, t_len, t_read,
                   region_orders, c_orders, fault, c_fault>>

\* lines 88-95, one iteration
StartThread ==
    /\ d_pc = "start"
    /\ LET r == Len(threads) + 1
       IN /\ r \in RegionIds
          /\ t_pc' = [t_pc EXCEPT ![r] = "fetch"]
          /\ threads' = Append(threads, r)
          /\ d_pc' = IF r = NumRegions THEN "join" ELSE "start"
    /\ UNCHANGED <<notData, joined, t_len, t_read, order_count,
                   sink, region_orders, c_orders, fault, c_fault>>

\* lines 79-81 of ingest_region: execute_requests fetches and aggregates
RegionFetch(r) ==
    /\ t_pc[r] = "fetch"
    /\ t_pc' = [t_pc EXCEPT ![r] =
                  IF fault[r] \in {"fetch", "aggregate"} THEN "failed"
                  ELSE IF region_orders[r] > 0 THEN "load" ELSE "done"]
    /\ UNCHANGED <<notData, d_pc, threads, joined, t_len, t_read,
                   order_count, sink, region_orders, c_orders, fault, c_fault>>

\* line 82
RegionLoad(r) ==
    /\ t_pc[r] = "load"
    /\ IF fault[r] = "load"
       THEN /\ t_pc' = [t_pc EXCEPT ![r] = "failed"]
            /\ UNCHANGED sink
       ELSE /\ t_pc' = [t_pc EXCEPT ![r] = "count_read"]
            /\ sink' = LoadOrders(sink, r, region_orders[r])
    /\ UNCHANGED <<notData, d_pc, threads, joined, t_len, t_read,
                   order_count, region_orders, c_orders, fault, c_fault>>

\* line 84, order_count += len(orders): the load of the shared cell ...
RegionCountRead(r) ==
    /\ t_pc[r] = "count_read"
    /\ t_read' = [t_read EXCEPT ![r] = order_count]
    /\ t_len' = [t_len EXCEPT ![r] = region_orders[r]]
    /\ t_pc' = [t_pc EXCEPT ![r] = "count_write"]
    /\ UNCHANGED <<notData, d_pc, threads, joined, order_count,
                   sink, region_orders, c_orders, fault, c_fault>>

\* ... and the store of the sum
RegionCountWrite(r) ==
    /\ t_pc[r] = "count_write"
    /\ order_count' = t_read[r] + t_len[r]
    /\ t_pc' = [t_pc EXCEPT ![r] = "done"]
    /\ UNCHANGED <<notData, d_pc, threads, joined, t_len, t_read,
                   sink, region_orders, c_orders, fault, c_fault>>

\* a thread whose target has returned (normally, or after the except
\* clause of lines 85-86 logged the error)
ThreadTerminated(r) == t_pc[r] \in {"done", "failed"}

\* t.join() returns at once: the thread is not waited for
ThreadNotAwaited(r) == TRUE

\* t.join() (line 98) returns when the thread has terminated
JoinReturns(r) == ThreadTerminated(r)

\* lines 97-98, one iteration
JoinThread ==
    /\ d_pc = "join"
    /\ joined < Len(threads)
    /\ JoinReturns(threads[joined + 1])
    /\ joined' = joined + 1
    /\ UNCHANGED <<notData, d_pc, threads, t_pc, t_len, t_read,
                   order_count, sink, region_orders, c_orders, fault, c_fault>>

\* line 100
ReturnCount ==
    /\ d_pc = "join"
    /\ joined = Len(threads)
    /\ d_pc' = "returned"
    /\ UNCHANGED <<notData, threads, joined, t_pc, t_len, t_read,
                   order_count, sink, region_orders, c_orders, fault, c_fault>>

NextData ==
    \/ IngestCitadels
    \/ StartThread
    \/ \E r \in RegionIds : RegionFetch(r)
    \/ \E r \in RegionIds : RegionLoad(r)
    \/ \E r \in RegionIds : RegionCountRead(r)
    \/ \E r \in RegionIds : RegionCountWrite(r)
    \/ JoinThread
    \/ ReturnCount

SpecData == InitData /\ [][NextData]_vars

(***************************************************************************)
(* C3 -- partition isolation.  get_data can always go on until it returns, *)
(* and when it has returned every thread has terminated and every region   *)
(* whose own pipeline raised nowhere has all its records in the sink,      *)
(* whatever the other regions and the citadel ingestion did.               *)
(***************************************************************************)
C3_PartitionIsolation ==
    /\ d_pc # "returned" => ENABLED NextData
    /\ d_pc = "returned" =>
          \A r \in RegionIds :
              /\ ThreadTerminated(r)
              /\ fault[r] = "none" => sink[r] = region_orders[r]

\* get_data returned after the citadel ingestion and one region raised and
\* another region's records were loaded
C3_Witness ==
    /\ d_pc = "returned"
    /\ c_fault # "none"
    /\ \E r1, r2 \in RegionIds :
          /\ fault[r1] # "none"
          /\ fault[r2] = "none" /\ sink[r2] > 0

(***************************************************************************)
(* C11 -- total record count under concurrency.  When get_data has         *)
(* returned, order_count is the number of citadel records loaded plus the  *)
(* records loaded for every region whose ingestion succeeded, whatever the *)
(* interleaving of the region threads.                                     *)
(***************************************************************************)
RECURSIVE LoadedUpTo(_)
LoadedUpTo(r) ==
    IF r = 0 THEN 0
    ELSE LoadedUpTo(r - 1) + (IF fault[r] = "none" THEN region_orders[r] ELSE 0)

C11_CountIsTotal ==
    d_pc = "returned" =>
        order_count = (IF c_fault = "none" THEN c_orders ELSE 0)
                        + LoadedUpTo(NumRegions)

(***************************************************************************)
(* C23 -- concurrency cap.  The region fan-out of get_data has a cap that  *)
(* does not grow with the number of regions: of the NumRegions regions it  *)
(* is handed, fewer than NumRegions have a thread fetching or loading at   *)
(* the same time.                                                          *)
(***************************************************************************)
RegionsInFlight ==
    {r \in RegionIds : t_pc[r] \in {"fetch", "load", "count_read", "count_write"}}

C23_ConcurrencyCap == Cardinality(RegionsInFlight) < NumRegions

(***************************************************************************)
(* app.main: the new index is built beside the one the alias points to,    *)
(* and the alias is moved when get_data has returned.  Every call to       *)
(* Elasticsearch (and the download of the region ids) either returns or    *)
(* raises; the except clause of main deletes the new index and re-raises.  *)
(* get_data runs as in SpecData, between create_index and update_alias.    *)
(***************************************************************************)
index_name == "market-data-new"
ES_ALIAS_TARGET == "market-data-old"     \* what an earlier run left aliased
JUMP_DATA == "evetrade_jump_data"
OldIndices == {ES_ALIAS_TARGET, "market-data-stale", JUMP_DATA}

InitMain ==
    /\ IdleAgg
    /\ IdleFetch
    /\ IdleMulti
    /\ IdleRetry
    /\ IdleClient
    /\ d_pc = "citadel"
    /\ threads = <<>>
    /\ joined = 0
    /\ t_pc = [r \in RegionIds |-> "unstarted"]
    /\ t_len = [r \in RegionIds |-> 0]
    /\ t_read = [r \in RegionIds |-> 0]
    /\ order_count = 0
    /\ sink = [src \in {Citadels} \cup RegionIds |-> 0]
    /\ region_orders = [r \in RegionIds |-> 2]
    /\ c_orders = 2
    /\ fault \in [RegionIds -> RegionFaults]
    /\ c_fault \in CitadelFaults
    /\ m_pc = "lookup"
    /\ indices \in SUBSET OldIndices
    /\ alias_of \in {"none"} \cup ({ES_ALIAS_TARGET} \cap indices)
    /\ alias_start = alias_of
    /\ previous_index = "none"
    /\ to_clean = {}
    /\ cleaned = {}
    /\ switched = FALSE
    /\ m_error = "none"

\* a statement of the try block raises: control goes to the except clause
Raise(stmt) ==
    /\ m_pc' = "except"
    /\ m_error' = stmt

\* line 191, get_index_with_alias (123-130)
GetIndexWithAlias ==
    /\ m_pc = "lookup"
    /\ \/ /\ Raise("get_index_with_alias")
          /\ UNCHANGED previous_index
       \/ /\ previous_index' = alias_of
          /\ m_pc' = "list"
          /\ UNCHANGED m_error
    /\ UNCHANGED <<notMain, dataVars, indices, alias_of, alias_start,
                   to_clean, cleaned, switched>>

\* line 192
Protected == {previous_index, index_name, JUMP_DATA} \ {"none"}

\* line 172: the indices that exist are listed
ListIndices ==
    /\ m_pc = "list"
    /\ \/ /\ Raise("delete_stale_indices")
          /\ UNCHANGED to_clean
       \/ /\ to_clean' = indices
          /\ m_pc' = "cleanup"
          /\ UNCHANGED m_error
    /\ UNCHANGED <<notMain, dataVars, indices, alias_of, alias_start,
                   previous_index, cleaned, switched>>

\* lines 173-176, one iteration; delete_index is lines 158-165
\* (deleting an index removes the aliases that point to it)
VisitIndex(i) ==
    /\ m_pc = "cleanup"
    /\ i \in to_clean
    /\ IF i \in Protected \/ i \notin indices
       THEN /\ to_clean' = to_clean \ {i}
            /\ UNCHANGED <<m_pc, m_error, indices, alias_of, cleaned>>
       ELSE \/ /\ Raise("delete_stale_indices")
               /\ UNCHANGED <<to_clean, indices, alias_of, cleaned>>
            \/ /\ indices' = indices \ {i}
               /\ alias_of' = IF alias_of = i THEN "none" ELSE alias_of
               /\ cleaned' = cleaned \cup {i}
               /\ to_clean' = to_clean \ {i}
               /\ UNCHANGED <<m_pc, m_error>>
    /\ UNCHANGED <<notMain, dataVars, alias_start, previous_index, switched>>

\* the loop of delete_stale_indices is over
CleanupReturns ==
    /\ m_pc = "cleanup"
    /\ to_clean = {}
    /\ m_pc' = "regions"
    /\ UNCHANGED <<notMain, dataVars, indices, alias_of, alias_start,
                   previous_index, to_clean, cleaned, switched, m_error>>

\* line 194
GetRegionIds ==
    /\ m_pc = "regions"
    /\ \/ Raise("get_region_ids")
       \/ /\ m_pc' = "create"
          /\ UNCHANGED m_error
    /\ UNCHANGED <<notMain, dataVars, indices, alias_of, alias_start,
                   previous_index, to_clean, cleaned, switched>>

\* line 195, create_index (103-110)
CreateIndex ==
    /\ m_pc = "create"
    /\ \/ /\ Raise("create_index")
          /\ UNCHANGED indices
       \/ /\ indices' = indices \cup {index_name}
          /\ m_pc' = "data"
          /\ UNCHANGED m_error
    /\ UNCHANGED <<notMain, dataVars, alias_of, alias_start,
                   previous_index, to_clean, cleaned, switched>>

\* line 196: one step of get_data
GetData ==
    /\ m_pc = "data"
    /\ NextData

\* get_data has returned its count
GetDataReturns ==
    /\ m_pc = "data"
    /\ d_pc = "returned"
    /\ m_pc' = "alias"
    /\ UNCHANGED <<notMain, dataVars, indices, alias_of, alias_start,
                   previous_index, to_clean, cleaned, switched, m_error>>

\* line 197, update_alias (133-146): one atomic update_aliases call
UpdateAlias ==
    /\ m_pc = "alias"
    /\ \/ /\ Raise("update_alias")
          /\ UNCHANGED <<alias_of, switched>>
       \/ /\ alias_of' = index_name
          /\ switched' = TRUE
          /\ m_pc' = "refresh"
          /\ UNCHANGED m_error
    /\ UNCHANGED <<notMain, dataVars, indices, alias_start,
                   previous_index, to_clean, cleaned>>

\* line 198, refresh_index (149-155)
RefreshIndex ==
    /\ m_pc = "refresh"
    /\ \/ Raise("refresh_index")
       \/ /\ m_pc' = "done"
          /\ UNCHANGED m_error
    /\ UNCHANGED <<notMain, dataVars, indices, alias_of, alias_start,
                   previous_index, to_clean, cleaned, switched>>

\* lines 203-207: delete_index(index_name), which may raise in its turn,
\* then raise
Except ==
    /\ m_pc = "except"
    /\ m_pc' = "failed"
    /\ \/ index_name \in indices /\ UNCHANGED <<indices, alias_of>>
       \/ /\ indices' = indices \ {index_name}
          /\ alias_of' = IF alias_of = index_name THEN "none" ELSE alias_of
    /\ UNCHANGED <<notMain, dataVars, alias_start, previous_index, to_clean,
                   cleaned, switched, m_error>>

NextMain ==
    \/ GetIndexWithAlias
    \/ ListIndices
    \/ \E i \in OldIndices : VisitIndex(i)
    \/ CleanupReturns
    \/ GetRegionIds
    \/ CreateIndex
    \/ GetData
    \/ GetDataReturns
    \/ UpdateAlias
    \/ RefreshIndex
    \/ Except

SpecMain == InitMain /\ [][NextMain]_vars

\* main is over: it returned, or its except clause raised
MainOver == m_pc \in {"done", "failed"}

\* main raised, the new index is gone and the alias was not moved
Aborted ==
    /\ m_pc = "failed"
    /\ index_name \notin indices
    /\ ~switched

\* refresh_token raised in get_citadel_orders
NoCredential == c_fault = "credential"

\* the first page of every region could not be fetched
NoFirstPage == \A r \in RegionIds : fault[r] = "fetch"

(***************************************************************************)
(* C22 -- fatal escalation.  A run in which no valid credential could be   *)
(* obtained, or in which the first page of every region was unreachable,   *)
(* ends aborted: main raises, the new index is deleted and the alias is    *)
(* not switched.  A run that raised without either of the two had a        *)
(* failure that is not a fetch failure.                                    *)
(***************************************************************************)
C22_FatalEscalation ==
    /\ (MainOver /\ (NoCredential \/ NoFirstPage)) => Aborted
    /\ (m_pc = "failed" /\ ~(NoCredential \/ NoFirstPage)) => m_error # "none"

(***************************************************************************)
(* C29 -- index/alias lifecycle of main.  The alias has been switched only *)
(* when the new index exists and every region thread has terminated; the   *)
(* index the alias pointed to at the start is never deleted by the stale   *)
(* cleanup; and when main has raised, the alias was not switched by the    *)
(* run and the new index does not exist.                                   *)
(***************************************************************************)
C29_IndexAliasLifecycle ==
    /\ (switched /\ m_pc \in {"refresh", "done"}) =>
          /\ index_name \in indices
          /\ d_pc = "returned"
          /\ \A r \in RegionIds : ThreadTerminated(r)
    /\ alias_start \notin cleaned
    /\ m_pc = "failed" => (~switched /\ index_name \notin indices)

(***************************************************************************)
(* EsiClient.multi_request: pool.map submits every job at once, the pool   *)
(* runs at most max_workers of them, from the head of its queue, and the   *)
(* results are taken in the order of the jobs.  Which jobs' requests raise *)
(* is fixed at the start.                                                  *)
(***************************************************************************)
Jobs == 1..NumJobs
ThreadArgs == {0, 2, MAX_THREADS + 1}

Max(a, b) == IF a >= b THEN a ELSE b
Min(a, b) == IF a <= b THEN a ELSE b

\* line 123
ClampThreads(n) == Max(Min(n, MAX_THREADS), 1)

\* the response session.request gives for job j
ResponseTo(j) == [to |-> j]

InitMulti ==
    /\ IdleAgg /\ IdleFetch /\ IdleData /\ IdleRetry /\ IdleClient
    /\ IdleMain
    /\ mr_pc = "call"
    /\ mr_threads \in ThreadArgs
    /\ job_raises \in [Jobs -> BOOLEAN]
    /\ job_state = [j \in Jobs |-> "unsubmitted"]
    /\ results = <<>>
    /\ finish_order = <<>>

Running == { j \in Jobs : job_state[j] = "running" }

\* lines 123-134: the pool is created and map submits all the jobs
MultiSubmit ==
    /\ mr_pc = "call"
    /\ job_state' = [j \in Jobs |-> "queued"]
    /\ mr_pc' = "collect"
    /\ UNCHANGED <<notMulti, mr_threads, job_raises, results, finish_order>>

\* a worker takes the head of the queue
WorkerStart(j) ==
    /\ job_state[j] = "queued"
    /\ \A i \in Jobs : i < j => job_state[i] # "queued"
    /\ Cardinality(Running) < ClampThreads(mr_threads)
    /\ job_state' = [job_state EXCEPT ![j] = "running"]
    /\ UNCHANGED <<notMulti, mr_pc, mr_threads, job_raises, results,
                   finish_order>>

\* _multi_shim (125-130) returns or raises
WorkerFinish(j) ==
    /\ job_state[j] = "running"
    /\ job_state' = [job_state EXCEPT ![j] =
                       IF job_raises[j] THEN "raised" ELSE "response"]
    /\ finish_order' = Append(finish_order,
                              IF job_raises[j] THEN <<j, "raised">>
                              ELSE <<j, ResponseTo(j)>>)
    /\ UNCHANGED <<notMulti, mr_pc, mr_threads, job_raises, results>>

\* results taken in the order the workers finished
ByCompletion(j, done) == <<j, done[j][2]>>

\* pool.map yields the result of the future of job j: the pair its shim
\* returned (line 130)
FutureResult(j, done) ==
    done[CHOOSE i \in DOMAIN done : done[i][1] = j]

\* lines 134-135, one iteration: the next result of pool.map, which
\* re-raises the job's exception; the queued futures are then cancelled
CollectNext ==
    /\ mr_pc = "collect"
    /\ LET j == Len(results) + 1
       IN /\ j \in Jobs
          /\ job_state[j] \in {"response", "raised"}
          /\ IF job_state[j] = "response"
             THEN /\ results' = Append(results, FutureResult(j, finish_order))
                  /\ UNCHANGED <<mr_pc, job_state>>
             ELSE /\ mr_pc' = "raised"
                  /\ job_state' = [i \in Jobs |->
                        IF job_state[i] = "queued" THEN "cancelled"
                        ELSE job_state[i]]
                  /\ UNCHANGED results
    /\ UNCHANGED <<notMulti, mr_threads, job_raises, finish_order>>

\* line 136
MultiReturn ==
    /\ mr_pc = "collect"
    /\ Len(results) = NumJobs
    /\ mr_pc' = "returned"
    /\ UNCHANGED <<notMulti, mr_threads, job_raises, job_state, results,
                   finish_order>>

NextMulti ==
    \/ MultiSubmit
    \/ \E j \in Jobs : WorkerStart(j)
    \/ \E j \in Jobs : WorkerFinish(j)
    \/ CollectNext
    \/ MultiReturn

SpecMulti == InitMulti /\ [][NextMulti]_vars

(***************************************************************************)
(* C4 -- job isolation of multi_request.  When the call on a batch in     *)
(* which the request of exactly one job raises is over, it has returned,   *)
(* and the returned list holds a result for every other job.               *)
(***************************************************************************)
OneJobRaises == Cardinality({ j \in Jobs : job_raises[j] }) = 1

C4_JobIsolation ==
    (OneJobRaises /\ mr_pc \in {"returned", "raised"}) =>
        /\ mr_pc = "returned"
        /\ \A j \in Jobs :
              ~job_raises[j] => \E i \in DOMAIN results : results[i][1] = j

(***************************************************************************)
(* C18 -- result mapping of multi_request.  When the call on a batch in    *)
(* which no request raises has returned, the list holds exactly one pair   *)
(* per job and the response of each pair is the response to that pair's    *)
(* job, whatever the order in which the workers finished.                  *)
(***************************************************************************)
NoJobRaises == \A j \in Jobs : ~job_raises[j]

C18_ResultMapping ==
    (mr_pc = "returned" /\ NoJobRaises) =>
        /\ Len(results) = NumJobs
        /\ \A j \in Jobs :
              Cardinality({ i \in DOMAIN results : results[i][1] = j }) = 1
        /\ \A i \in DOMAIN results : results[i][2].to = results[i][1]

\* the call returned after the workers finished in another order than
\* the jobs were given
C18_Witness ==
    /\ mr_pc = "returned"
    /\ NoJobRaises
    /\ \E i \in DOMAIN finish_order : finish_order[i][1] # i

(***************************************************************************)
(* EsiClient._retry_request.  Every send attempt meets a status code, a    *)
(* connection error or a timeout.                                          *)
(***************************************************************************)
ConnectionError == -2
Timeout == -3
Statuses == {200, 304, 404, 499, 500, 599, 600}
SendOutcomes == Statuses \cup {ConnectionError, Timeout}

\* a status range that leaves 599 out
IsServerErrorShort(status) == 500 <= status /\ status < 599

\* line 101
IsServerError(status) == 500 <= status /\ status <= 599

\* lines 106 / 112: time.sleep(retries**4 / 100), in hundredths of a second
SleepCentis(n) == n * n * n * n

\* line 113: APIException(url, 500, ...)
APIException(status_code) == [exception |-> "APIException", status_code |-> status_code]

InitRetry ==
    /\ IdleAgg /\ IdleFetch /\ IdleData /\ IdleMulti /\ IdleClient
    /\ IdleMain
    /\ rr_pc = "loop"
    /\ retries = 0
    /\ outcomes = <<>>
    /\ delays = <<>>
    /\ rr_result = "none"

\* lines 98-112, one iteration of the loop
RetryAttempt ==
    /\ rr_pc = "loop"
    /\ retries < MAX_RETRIES
    /\ \E o \in SendOutcomes :
          /\ outcomes' = Append(outcomes, o)
          /\ IF o \in {ConnectionError, Timeout} \/ IsServerError(o)
             THEN /\ retries' = retries + 1
                  /\ delays' = Append(delays, SleepCentis(retries'))
                  /\ UNCHANGED <<rr_pc, rr_result>>
             ELSE /\ rr_pc' = "returned"
                  /\ rr_result' = [status_code |-> o]
                  /\ UNCHANGED <<retries, delays>>
    /\ UNCHANGED notRetry

\* lines 113-115
RetryExhausted ==
    /\ rr_pc = "loop"
    /\ ~(retries < MAX_RETRIES)
    /\ rr_pc' = "raised"
    /\ rr_result' = APIException(500)
    /\ UNCHANGED <<notRetry, retries, outcomes, delays>>

NextRetry == RetryAttempt \/ RetryExhausted

SpecRetry == InitRetry /\ [][NextRetry]_vars

(***************************************************************************)
(* C5 -- retry bound.  A call sends at most 5 times; it returns the first  *)
(* response whose status is not 5xx; it raises the API exception exactly   *)
(* after 5 attempts that all ended in a connection error, a timeout or a   *)
(* 5xx status; the k-th failure is followed by a sleep of k^4/100 seconds, *)
(* so the sleeps never decrease; and the call can always go on until it    *)
(* returns or raises.                                                      *)
(***************************************************************************)
FailedAttempt(o) == o \in {ConnectionError, Timeout} \/ o \in 500..599

C5_RetryBound ==
    /\ Len(outcomes) <= 5
    /\ rr_pc = "loop" => ENABLED NextRetry
    /\ rr_pc = "returned" =>
          /\ rr_result = [status_code |-> outcomes[Len(outcomes)]]
          /\ ~FailedAttempt(outcomes[Len(outcomes)])
          /\ \A i \in 1..(Len(outcomes) - 1) : FailedAttempt(outcomes[i])
    /\ rr_pc = "raised" =>
          /\ Len(outcomes) = 5
          /\ \A i \in 1..5 : FailedAttempt(outcomes[i])
          /\ rr_result.exception = "APIException"
    /\ rr_pc = "loop" => \A i \in DOMAIN outcomes : FailedAttempt(outcomes[i])
    /\ Len(delays) = Cardinality({ i \in DOMAIN outcomes : FailedAttempt(outcomes[i]) })
    /\ \A k \in DOMAIN delays : delays[k] = k * k * k * k
    /\ \A k \in DOMAIN delays : k > 1 => delays[k - 1] <= delays[k]

\* the call raised after five failures of all three kinds
C5_Witness ==
    /\ rr_pc = "raised"
    /\ \E i, j, k \in DOMAIN outcomes :
          outcomes[i] = Timeout /\ outcomes[j] = ConnectionError /\ outcomes[k] = 599
    /\ delays = <<1, 16, 81, 256, 625>>

(***************************************************************************)
(* The esipy client and its cache.  utils.py and cache.py are not part of  *)
(* the sources at hand: make_cache_key, get_cache_time_left and the cache  *)
(* store follow the specification (sections 3 and 4.1).                    *)
(***************************************************************************)
Url == "https://esi.evetech.net/latest/markets/prices/"

Methods == {"GET", "POST", "post", "HEAD", "put", "DELETE"}

\* client.py 33
UNCACHED_METHODS == {"POST", "PUT", "DELETE", "HEAD"}

\* method.upper() left out
UpperLeftOut(method) == method

\* str.upper() on the methods of the model (client.py 160)
Upper(method) ==
    CASE method = "post" -> "POST"
      [] method = "put" -> "PUT"
      [] OTHER -> method

\* CacheKey: a digest of (method, URL, parameters)
MakeCacheKey(method, url) == <<method, url>>

\* seconds left until the time an expires header names
GetCacheTimeLeft(expires, t) == expires - t

\* CacheStore.get: absent once the entry's expiry is reached
CacheGet(c, key, t) ==
    IF key \in DOMAIN c /\ t < c[key].expires_at THEN c[key].value
    ELSE NoResponse

\* CacheStore.set(key, entry, ttl)
CacheSet(c, key, value, ttl, t) ==
    (key :> [value |-> value, expires_at |-> t + ttl]) @@ c

\* CacheStore.invalidate(key)
CacheInvalidate(c, key) == [k \in DOMAIN c \ {key} |-> c[k]]

\* the expires headers the remote may send at time t
ExpiresAt(t) == {Absent, t - 1, t, t + 1}
Etags == {Absent, 7}
Bodies == {"b1", "b2"}

\* what the remote may answer at time t to a request whose If-None-Match
\* header is if_none_match: 200 with a body, 204 without, an error status,
\* or, to a conditional request, 304 without a body
RemoteResponses(t, if_none_match) ==
    { [status_code |-> 200, expires |-> e, etag |-> g, content |-> b]
        : e \in ExpiresAt(t), g \in Etags, b \in Bodies }
    \cup { [status_code |-> 204, expires |-> e, etag |-> Absent, content |-> ""]
        : e \in ExpiresAt(t) }
    \cup { [status_code |-> 404, expires |-> Absent, etag |-> Absent,
            content |-> "error"] }
    \cup IF if_none_match = Absent THEN {}
         ELSE { [status_code |-> 304, expires |-> e, etag |-> g, content |-> ""]
                  : e \in ExpiresAt(t), g \in Etags }

\* the answers that matter to _retry_request, which reads no header
PlainResponses ==
    { [status_code |-> 200, expires |-> Absent, etag |-> Absent, content |-> b]
        : b \in Bodies }
    \cup { [status_code |-> 404, expires |-> Absent, etag |-> Absent,
            content |-> "error"] }

\* EsiApp over its own cache.  cache_time: None (the expires header
\* decides), 0 (never expires) or a number of seconds (app.py 31-33)
CacheTimes == {Absent, 0, 2}

\* line 36
AppKey == "esipy:app:meta_swagger_url"

InitClient ==
    /\ IdleAgg /\ IdleFetch /\ IdleData /\ IdleMulti /\ IdleRetry
    /\ IdleMain
    /\ scenario \in {"client", "app"}
    /\ now = 1
    /\ client = "unbuilt"
    /\ retry_requests \in IF scenario = "client" THEN BOOLEAN ELSE {FALSE}
    /\ cache = <<>>
    /\ call = NoCall
    /\ app_expire \in IF scenario = "app" THEN CacheTimes ELSE {Absent}
    /\ app_cache = <<>>
    /\ app = NoSwagger

\* a second passes
Tick ==
    /\ scenario # "none"
    /\ now < MaxTime
    /\ now' = now + 1
    /\ UNCHANGED <<notClient, scenario, client, retry_requests, cache, call,
                   app_expire, app_cache, app>>

\* EsiClient.__init__, lines 55-59: the class has no _request attribute,
\* so retry_requests=False ends in AttributeError
Construct ==
    /\ scenario = "client" /\ client = "unbuilt"
    /\ client' = IF retry_requests THEN "ready" ELSE "attribute_error"
    /\ UNCHANGED <<notClient, scenario, now, retry_requests, cache, call,
                   app_expire, app_cache, app>>

CallOver == call.pc \in {"none", "returned", "raised"}

\* client.request(method, url) on the instance: the attribute set at line
\* 57 is _retry_request (95-115), which never looks at the cache and
\* returns the response of its first or of a later send (SpecRetry has
\* the loop attempt by attempt)
AttributeRequest(method) ==
    /\ client = "ready" /\ CallOver
    /\ \E n \in {1, MAX_RETRIES} :
          \/ \E r \in PlainResponses :
                call' = [NoCall EXCEPT !.pc = "returned",
                            !.impl = "_retry_request", !.method = method,
                            !.live = CacheGet(cache, MakeCacheKey(method, Url), now),
                            !.t_check = now, !.sends = n,
                            !.response = r, !.value = r]
          \/ /\ n = MAX_RETRIES
             /\ call' = [NoCall EXCEPT !.pc = "raised",
                            !.exception = "APIException",
                            !.impl = "_retry_request", !.method = method,
                            !.live = CacheGet(cache, MakeCacheKey(method, Url), now),
                            !.t_check = now, !.sends = n]
    /\ UNCHANGED <<notClient, scenario, now, client, retry_requests, cache,
                   app_expire, app_cache, app>>

\* the raise_on_error option of a call: not passed, True or False
RaiseOnError == {"absent", "true", "false"}

\* line 158 hands **kwargs to requests.Session.request, whose signature has
\* no raise_on_error parameter: the call raises TypeError when the option
\* was passed, whatever its value
SessionRejects(option) == option # "absent"

\* line 164
WantsRaise(status_code, option) == status_code >= 400 /\ option = "true"

\* EsiClient.request(client, method, url), the method of lines 138-172:
\* lines 145-146
RequestLookup(method) ==
    /\ client = "ready" /\ CallOver
    /\ \E option \in RaiseOnError :
         LET found == CacheGet(cache, MakeCacheKey(method, Url), now)
         IN call' = [NoCall EXCEPT !.pc = "looked_up", !.impl = "request",
                        !.method = method, !.cached = found, !.live = found,
                        !.raise_on_error = option]
    /\ UNCHANGED <<notClient, scenario, now, client, retry_requests, cache,
                   app_expire, app_cache, app>>

\* line 151
StillFresh(cache_timeout) == cache_timeout >= 0

\* lines 147-157, and the send of line 158
RequestCheck ==
    /\ call.pc = "looked_up"
    /\ LET c == call.cached
           has == c # NoResponse
           cache_timeout == GetCacheTimeLeft(c.expires, now)
           fresh == has /\ c.expires # Absent /\ StillFresh(cache_timeout)
       IN IF fresh
          THEN /\ call' = [call EXCEPT !.pc = "returned", !.hit = TRUE,
                                 !.value = c, !.t_check = now]
               /\ UNCHANGED cache
          ELSE /\ call' = IF SessionRejects(call.raise_on_error)
                          THEN [call EXCEPT
                                  !.pc = "raised", !.exception = "TypeError",
                                  !.t_check = now,
                                  !.if_none_match = IF has THEN c.etag ELSE Absent]
                          ELSE [call EXCEPT
                                  !.pc = "sent", !.sends = 1, !.t_check = now,
                                  !.if_none_match = IF has THEN c.etag ELSE Absent]
               /\ cache' = IF has /\ (c.expires = Absent \/ cache_timeout < 0)
                                  /\ c.etag = Absent
                           THEN CacheInvalidate(cache, MakeCacheKey(call.method, Url))
                           ELSE cache
    /\ UNCHANGED <<notClient, scenario, now, client, retry_requests,
                   app_expire, app_cache, app>>

\* a success test that takes every 2xx status
ShouldCacheAnySuccess(status_code) == status_code \in 200..299

\* line 159
ShouldCache(status_code) == status_code = 200

\* __cache_response, lines 178-201
CacheResponse(c, key, res, method, t) ==
    IF res.expires # Absent /\ method \notin UNCACHED_METHODS
    THEN LET cache_timeout == GetCacheTimeLeft(res.expires, t)
         IN IF cache_timeout >= 0
            THEN CacheSet(c, key, res, cache_timeout, t)
            ELSE c
    ELSE c

\* lines 158-172: the response arrives, or the session raises
RequestResponse ==
    /\ call.pc = "sent"
    /\ \/ \E r \in RemoteResponses(now, call.if_none_match) :
             /\ cache' = IF ShouldCache(r.status_code)
                         THEN CacheResponse(cache, MakeCacheKey(call.method, Url),
                                            r, Upper(call.method), now)
                         ELSE cache
             /\ call' = IF WantsRaise(r.status_code, call.raise_on_error)
                         THEN [call EXCEPT !.pc = "raised", !.response = r,
                                           !.t_response = now,
                                           !.exception = "APIException"]
                         ELSE [call EXCEPT !.pc = "returned", !.response = r,
                                           !.t_response = now, !.value = r]
       \/ /\ call' = [call EXCEPT !.pc = "raised", !.exception = "transport"]
          /\ UNCHANGED cache
    /\ UNCHANGED <<notClient, scenario, now, client, retry_requests,
                   app_expire, app_cache, app>>


\* CacheStore.get(key, (None, None, 0)) on the cache of the app
AppCacheGet(c, t) ==
    IF AppKey \in DOMAIN c /\ t < c[AppKey].expires_at THEN c[AppKey].value
    ELSE NoCachedSwagger

\* the answers to the HEAD request of line 82; each carries an expires
\* header, which line 86 hands to get_cache_time_left
HeadResponses(t, if_none_match) ==
    { r \in RemoteResponses(t, if_none_match) :
        r.status_code \in {200, 304} /\ r.expires # Absent }

AppOver == app.pc \in {"none", "returned", "raised"}

\* EsiApp(cache=...) reaches __get_or_create_swagger: lines 50-56
AppLookup ==
    /\ scenario = "app" /\ AppOver
    /\ app' = [NoSwagger EXCEPT !.pc = "looked_up",
                                !.cached = AppCacheGet(app_cache, now)]
    /\ UNCHANGED <<notClient, scenario, now, client, retry_requests, cache,
                   call, app_expire, app_cache>>

\* lines 58-80
AppCheck ==
    /\ app.pc = "looked_up"
    /\ LET c == app.cached
           has == c.swagger # "None"
           by_header == app_expire = Absent /\ c.expires # Absent
           cache_timeout == IF by_header THEN GetCacheTimeLeft(c.expires, now)
                            ELSE -1
           fresh == IF by_header THEN cache_timeout >= 0
                    ELSE app_expire = 0 \/ c.timeout >= now
       IN IF has /\ fresh
          THEN /\ app' = [app EXCEPT !.pc = "returned", !.value = c.swagger]
               /\ UNCHANGED app_cache
          ELSE /\ app' = [app EXCEPT
                            !.pc = "heading",
                            !.if_none_match = IF has THEN c.etag ELSE Absent,
                            !.timeout = IF app_expire > 0 THEN now + app_expire
                                        ELSE 0]
               /\ app_cache' =
                    IF /\ has
                       /\ (c.expires = Absent \/ cache_timeout < 0 \/ c.timeout < now)
                       /\ c.etag = Absent
                    THEN CacheInvalidate(app_cache, AppKey)
                    ELSE app_cache
    /\ UNCHANGED <<notClient, scenario, now, client, retry_requests, cache,
                   call, app_expire>>

\* a revalidation that stores what the 304 response carried
RevalidatedFromResponse(cached_swagger, res) == res.content

\* line 88: the document stored on 304 is the cached one
RevalidatedSwagger(cached_swagger, res) == cached_swagger

\* lines 82-91: the HEAD request and the 304 branch
AppHead ==
    /\ app.pc = "heading"
    /\ \E res \in HeadResponses(now, app.if_none_match) :
         LET expiration == IF app_expire > 0 THEN app_expire
                           ELSE GetCacheTimeLeft(res.expires, now)
             cached_swagger == app.cached.swagger
         IN IF res.status_code = 304 /\ cached_swagger # "None"
            THEN /\ app_cache' =
                      CacheSet(app_cache, AppKey,
                               [swagger |-> RevalidatedSwagger(cached_swagger, res),
                                expires |-> res.expires,
                                etag |-> res.etag, timeout |-> app.timeout],
                               expiration, now)
                 /\ app' = [app EXCEPT !.pc = "returned", !.head = res,
                                       !.expiration = expiration,
                                       !.value = cached_swagger]
            ELSE /\ app' = [app EXCEPT !.pc = "fetching", !.head = res,
                                       !.expiration = expiration,
                                       !.attempt = 1]
                 /\ UNCHANGED app_cache
    /\ UNCHANGED <<notClient, scenario, now, client, retry_requests, cache,
                   call, app_expire>>

\* lines 94-113, one turn of the loop: the GET answers with the document,
\* or it fails (an error status, an exception, or a 304 whose empty body
\* is no JSON); after the third failure the constructor raises
AppGet ==
    /\ app.pc = "fetching"
    /\ \/ \E swagger \in Bodies :
            /\ app_cache' =
                 CacheSet(app_cache, AppKey,
                          [swagger |-> swagger, expires |-> app.head.expires,
                           etag |-> app.head.etag, timeout |-> app.timeout],
                          app.expiration, now)
            /\ app' = [app EXCEPT !.pc = "returned", !.get_status = 200,
                                  !.value = swagger]
       \/ \E status \in {404} \cup (IF app.if_none_match = Absent THEN {}
                                     ELSE {304}) :
            /\ app' = [app EXCEPT
                         !.get_status = status,
                         !.attempt = IF app.attempt < 3 THEN app.attempt + 1
                                     ELSE app.attempt,
                         !.pc = IF app.attempt < 3 THEN "fetching" ELSE "raised"]
            /\ UNCHANGED app_cache
    /\ UNCHANGED <<notClient, scenario, now, client, retry_requests, cache,
                   call, app_expire>>

NextClient ==
    \/ Tick
    \/ Construct
    \/ \E method \in Methods : AttributeRequest(method)
    \/ \E method \in Methods : RequestLookup(method)
    \/ RequestCheck
    \/ RequestResponse
    \/ AppLookup
    \/ AppCheck
    \/ AppHead
    \/ AppGet

SpecClient == InitClient /\ [][NextClient]_vars

(***************************************************************************)
(* C6 -- live cache hit.  A finished request of the client with a safe     *)
(* method, made while the cache held an entry for its key that was still   *)
(* unexpired when the request was decided, has returned that entry and has *)
(* sent nothing.                                                           *)
(***************************************************************************)
C6_LiveHitSendsNothing ==
    ( /\ call.pc \in {"returned", "raised"}
      /\ call.method = "GET"
      /\ call.live # NoResponse
      /\ call.t_check < call.live.expires )
        => /\ call.pc = "returned"
           /\ call.sends = 0
           /\ call.value = call.live

(***************************************************************************)
(* C7 -- expiry invariant, as claimed: a request returns a cached entry    *)
(* without contacting the remote only while the clock is strictly before   *)
(* the entry's expiry.                                                     *)
(***************************************************************************)
C7_HitOnlyStrictlyBeforeExpiry ==
    call.hit => call.t_check < call.value.expires

(***************************************************************************)
(* C8 -- not-modified handling.  When a request that carried the etag of   *)
(* a stale cached entry has been answered with 304, the value returned     *)
(* carries the cached body and the cache entry's expiry is the one of the  *)
(* new response headers.                                                   *)
(***************************************************************************)
C8_NotModifiedReturnsCachedBody ==
    ( /\ call.pc = "returned"
      /\ call.impl = "request"
      /\ call.if_none_match # Absent
      /\ call.response.status_code = 304
      /\ call.response.expires # Absent )
        => /\ call.value.content = call.cached.content
           /\ MakeCacheKey(call.method, Url) \in DOMAIN cache
           /\ cache[MakeCacheKey(call.method, Url)].value.expires
                 = call.response.expires

(***************************************************************************)
(* C9 -- body preservation.  A step that takes a 304 response, in          *)
(* EsiClient.request or in the swagger revalidation of EsiApp, leaves the  *)
(* body stored in the cache under the request's key as it was; the entry's *)
(* headers and expiry may change.                                          *)
(***************************************************************************)
StoredBody(c, key) ==
    IF key \in DOMAIN c THEN c[key].value.content ELSE "None"

StoredSwagger(c) ==
    IF AppKey \in DOMAIN c THEN c[AppKey].value.swagger ELSE "None"

ClientTakes304 ==
    /\ call.pc = "sent"
    /\ call'.pc = "returned"
    /\ call'.response.status_code = 304

AppTakes304 ==
    \/ /\ app.pc = "heading" /\ app'.pc # "heading"
       /\ app'.head.status_code = 304
    \/ /\ app.pc = "fetching" /\ app' # app
       /\ app'.get_status = 304

C9_NotModifiedKeepsBody ==
    [][ /\ ClientTakes304 =>
              StoredBody(cache', MakeCacheKey(call.method, Url))
                  = StoredBody(cache, MakeCacheKey(call.method, Url))
        /\ AppTakes304 => StoredSwagger(app_cache') = StoredSwagger(app_cache)
      ]_vars

\* the swagger document was revalidated by a 304 and stored again under
\* the headers of that response
C9_Witness ==
    /\ app.pc = "returned"
    /\ app.head.status_code = 304
    /\ AppKey \in DOMAIN app_cache
    /\ app_cache[AppKey].value.swagger = app.value
    /\ app_cache[AppKey].value.expires = app.head.expires
    /\ app.head.expires # app.cached.expires

(***************************************************************************)
(* C10 -- mutating methods are never cached.  The cache holds no entry     *)
(* under the key of a POST, PUT, DELETE or HEAD request, in whatever case  *)
(* the method was passed.                                                  *)
(***************************************************************************)
MutatingMethods == {"POST", "post", "HEAD", "put", "DELETE"}

C10_MutatingNeverCached ==
    \A method \in MutatingMethods : MakeCacheKey(method, Url) \notin DOMAIN cache

\* a lower-case post got a cacheable 200 answer
C10_Witness ==
    /\ call.pc = "returned"
    /\ call.impl = "request"
    /\ call.method = "post"
    /\ call.response.status_code = 200
    /\ call.response.expires > now

(***************************************************************************)
(* C19 -- strict error raising.  A finished call of EsiClient.request that *)
(* was no cache hit and whose transport did not fail has, when the caller  *)
(* passed raise_on_error=True and the response status was >= 400, raised   *)
(* the API exception for that response, and has otherwise (status below    *)
(* 400, or the option absent or false) returned the response.              *)
(***************************************************************************)
C19_RaisesOnlyOnRequest ==
    ( /\ call.impl = "request"
      /\ call.pc \in {"returned", "raised"}
      /\ ~call.hit
      /\ call.exception # "transport" )
        => /\ call.response # NoResponse
           /\ IF call.raise_on_error = "true" /\ call.response.status_code >= 400
              THEN call.pc = "raised" /\ call.exception = "APIException"
              ELSE call.pc = "returned" /\ call.value = call.response

(***************************************************************************)
(* C20 -- caching of successful responses, as claimed: when a request with *)
(* a cacheable method has returned a 2xx response from the remote, the     *)
(* cache holds that response under the request's key, expiring at the time *)
(* of its expires header when that header is present and not in the past   *)
(* (and after a floor ttl otherwise).                                      *)
(***************************************************************************)
ReturnedFromRemote ==
    /\ call.impl = "request"
    /\ call.pc = "returned"
    /\ ~call.hit

HeaderValid(res, t) == res.expires # Absent /\ res.expires >= t

C20_EverySuccessStored ==
    ( /\ ReturnedFromRemote
      /\ call.method = "GET"
      /\ call.response.status_code \in 200..299 )
        => /\ MakeCacheKey("GET", Url) \in DOMAIN cache
           /\ cache[MakeCacheKey("GET", Url)].value = call.response
           /\ HeaderValid(call.response, call.t_response)
                 => cache[MakeCacheKey("GET", Url)].expires_at
                        = call.response.expires

(***************************************************************************)
(* C20, amended -- a 200 response to a cacheable method that carries an    *)
(* expires header not in the past is stored as a new entry under the       *)
(* request's key, with the time left until that expiry as ttl; a response  *)
(* with another status, or whose expires header is absent or in the past,  *)
(* is not stored: the step leaves the cache as it was.                     *)
(***************************************************************************)
C20_FreshOkStored ==
    [][ (call.pc = "sent" /\ call'.pc = "returned") =>
          LET res == call'.response
              key == MakeCacheKey(call.method, Url)
          IN IF /\ call.method = "GET"
                /\ res.status_code = 200
                /\ HeaderValid(res, now)
             THEN /\ key \in DOMAIN cache'
                  /\ cache'[key] = [value |-> res, expires_at |-> res.expires]
                  /\ \A k \in DOMAIN cache' \ {key} :
                        k \in DOMAIN cache /\ cache'[k] = cache[k]
             ELSE cache' = cache
      ]_vars

\* a 200 response with a valid expires header replaced the entry the
\* request had found stale
C20_Witness ==
    /\ ReturnedFromRemote
    /\ call.method = "GET"
    /\ call.response.status_code = 200
    /\ HeaderValid(call.response, call.t_response)
    /\ call.cached # NoResponse
    /\ call.cached.content # call.response.content
    /\ cache[MakeCacheKey("GET", Url)].value = call.response

(***************************************************************************)
(* C28 -- revalidation of stale entries.  When EsiClient.request found an  *)
(* entry for the key and the entry was not fresh at the check, a request   *)
(* has been sent, its If-None-Match header is the entry's etag (none when  *)
(* the entry has none), and while the request is out the entry is in the   *)
(* cache exactly when it has an etag.                                      *)
(***************************************************************************)
StaleSeen ==
    /\ call.impl = "request"
    /\ call.pc \in {"sent", "returned", "raised"}
    /\ call.cached # NoResponse
    /\ ~call.hit

C28_StaleIsRevalidated ==
    StaleSeen =>
        /\ call.sends = 1
        /\ call.if_none_match = call.cached.etag
        /\ call.pc = "sent" =>
              (MakeCacheKey(call.method, Url) \in DOMAIN cache
                  <=> call.cached.etag # Absent)
====
